---- MODULE Spec2Model ----
(***************************************************************************)
(* The recursive, pointer-based segment tree of                            *)
(*   src/Rust/point_add_range_sum.rs  (SegmentTree<T: Monoid>)             *)
(*   src/Rust/staticrmq.rs            (SegmentTree<T, E, OP>)              *)
(* Both variants are built for the same size and driven by the same calls. *)
(*                                                                         *)
(* Option<Box<Node>> is a sequence of length 0 (None) or 1 (Some(node)).   *)
(* A Node is the record [value, range, left, right]; a Range<usize> is the *)
(* record [start, end].                                                    *)
(***************************************************************************)
EXTENDS Integers, Sequences, FiniteSets, TLC

\* Largest domain size of the trees of Spec.
MaxSize == 3
\* Input values are drawn from 0..MaxVal (or one-letter words over 1..MaxVal).
MaxVal == 2
\* Largest domain size of the trees of SpecBuild.
MaxBuildSize == 17
\* Largest domain size of the trees of SpecQuery.
MaxQuerySize == 12
\* Largest number of nodes and of edges of the graphs of SpecCycle.
MaxNodes == 3
MaxEdges == 3
\* Largest number of elements of the UnionFind of SpecUF.
MaxElems == 5

\* i64::MAX, the identity of the min combiner.  TLC's integers are 32 bits
\* wide, so the model uses the largest integer TLC represents; min only
\* compares it with the inputs, which are far below it.
i64_MAX == 2147483647

VARIABLES
  T,        \* the combiner the trees are instantiated with
  st,       \* point_add_range_sum.rs: SegmentTree<T> {root, size}
  rmq,      \* staticrmq.rs: SegmentTree<T,E,OP> {root, size, e, op}
  leaves,   \* history: index -> last value set at it (identity if never set)
  last,     \* history: the call that produced this state, with its result
  panicked, \* TRUE once an unwrap() hit None
  cyc,      \* cycle_detection.rs: the input and what main has computed
  uf        \* unionfind.rs: the UnionFind and what main has answered

vars == <<T, st, rmq, leaves, last, panicked, cyc, uf>>

\* The three programs are separate binaries: a behaviour runs one of them and
\* the state of the others stays off.
off == [pc |-> "off"]

None == <<>>
Some(x) == <<x>>
is_none(o) == Len(o) = 0
is_some(o) == Len(o) = 1
unwrap(o) == o[1]

mk_range(s, e) == [start |-> s, end |-> e]
\* Range<usize>::is_empty
is_empty(r) == ~(r.start < r.end)
\* Range<usize>::len (ExactSizeIterator): 0 for an empty or reversed range
len(r) == IF r.start < r.end THEN r.end - r.start ELSE 0

---------------------------------------------------------------------------
(* Combiners *)

\* impl Monoid for S: integer sum.  The inputs are small, so no i64 overflow.
S_id == 0
S_op(a, b) == a + b

\* staticrmq.rs main: || i64::MAX, |a, b| std::cmp::min(a, b)
min_e == i64_MAX
min_op(a, b) == IF b < a THEN b ELSE a

\* A lawful non-commutative combiner: words under concatenation.
cat_e == <<>>
cat_op(a, b) == a \o b

Combiners == {"sum", "min", "concat"}

\* T::id() / (self.e)()
Monoid_id(t) ==
  CASE t = "sum" -> S_id
    [] t = "min" -> min_e
    [] t = "concat" -> cat_e

\* T::op(&a, &b) / (self.op)(a, b)
Monoid_op(t, a, b) ==
  CASE t = "sum" -> S_op(a, b)
    [] t = "min" -> min_op(a, b)
    [] t = "concat" -> cat_op(a, b)

\* The values a caller passes to set.
Values(t) ==
  CASE t = "sum" -> 0..MaxVal
    [] t = "min" -> (1..MaxVal) \cup {i64_MAX}
    [] t = "concat" -> {<<>>} \cup {<<c>> : c \in 1..MaxVal}

---------------------------------------------------------------------------
(* point_add_range_sum.rs: Node<T: Monoid + Clone> *)

RECURSIVE Node_new(_, _)

\* Node::new without the is_empty early return.
Node_new_no_empty_check(t, range) ==
  LET mid == range.start + (len(range) \div 2)
      node == [value |-> Monoid_id(t), range |-> range,
               left |-> None, right |-> None]
  IN IF len(range) > 1
     THEN Some([node EXCEPT !.left = Node_new(t, mk_range(range.start, mid)),
                            !.right = Node_new(t, mk_range(mid, range.end))])
     ELSE Some(node)

\* Node::new splitting off the first index instead of halving.
Node_new_split_first(t, range) ==
  IF is_empty(range) THEN None
  ELSE LET mid == range.start + 1
           node == [value |-> Monoid_id(t), range |-> range,
                    left |-> None, right |-> None]
       IN IF len(range) > 1
          THEN Some([node EXCEPT
                       !.left = Node_new(t, mk_range(range.start, mid)),
                       !.right = Node_new(t, mk_range(mid, range.end))])
          ELSE Some(node)

Node_new(t, range) ==
  IF is_empty(range) THEN None
  ELSE LET mid == range.start + (len(range) \div 2)
           node == [value |-> Monoid_id(t), range |-> range,
                    left |-> None, right |-> None]
       IN IF len(range) > 1
          THEN Some([node EXCEPT
                       !.left = Node_new(t, mk_range(range.start, mid)),
                       !.right = Node_new(t, mk_range(mid, range.end))])
          ELSE Some(node)

\* update_value with the operands of op exchanged.
Node_update_value_swapped(t, node) ==
  LET left_val == IF is_some(node.left)
                  THEN unwrap(node.left).value ELSE Monoid_id(t)
      right_val == IF is_some(node.right)
                   THEN unwrap(node.right).value ELSE Monoid_id(t)
  IN [node EXCEPT !.value = Monoid_op(t, right_val, left_val)]

Node_update_value(t, node) ==
  LET left_val == IF is_some(node.left)
                  THEN unwrap(node.left).value ELSE Monoid_id(t)
      right_val == IF is_some(node.right)
                   THEN unwrap(node.right).value ELSE Monoid_id(t)
  IN [node EXCEPT !.value = Monoid_op(t, left_val, right_val)]

---------------------------------------------------------------------------
(* point_add_range_sum.rs: SegmentTree<T> *)

SegmentTree_new(t, size) ==
  [root |-> Node_new(t, mk_range(0, size)), size |-> size]

RECURSIVE set_recursive(_, _, _, _)

\* set_recursive descending into both children when index = mid.
set_recursive_both_at_mid(t, node, index, val) ==
  IF len(node.range) = 1 THEN [node EXCEPT !.value = val]
  ELSE LET mid == node.range.start + (len(node.range) \div 2)
           n1 == IF index <= mid /\ is_some(node.left)
                 THEN [node EXCEPT !.left =
                         Some(set_recursive(t, unwrap(node.left), index, val))]
                 ELSE node
           n2 == IF index >= mid /\ is_some(node.right)
                 THEN [n1 EXCEPT !.right =
                         Some(set_recursive(t, unwrap(node.right), index, val))]
                 ELSE n1
       IN Node_update_value(t, n2)

\* The node after set_recursive(node, index, val) returns.  Where an unwrap()
\* would panic the node is returned as it is and set_recursive_panics holds.
set_recursive(t, node, index, val) ==
  IF len(node.range) = 1 THEN [node EXCEPT !.value = val]
  ELSE LET mid == node.range.start + (len(node.range) \div 2)
       IN IF index < mid
          THEN IF is_none(node.left) THEN node
               ELSE Node_update_value(t, [node EXCEPT !.left =
                      Some(set_recursive(t, unwrap(node.left), index, val))])
          ELSE IF is_none(node.right) THEN node
               ELSE Node_update_value(t, [node EXCEPT !.right =
                      Some(set_recursive(t, unwrap(node.right), index, val))])

\* Does one of the unwrap() calls of set_recursive hit None?
RECURSIVE set_recursive_panics(_, _)
set_recursive_panics(node, index) ==
  IF len(node.range) = 1 THEN FALSE
  ELSE LET mid == node.range.start + (len(node.range) \div 2)
           child == IF index < mid THEN node.left ELSE node.right
       IN is_none(child) \/ set_recursive_panics(unwrap(child), index)

\* The calls set_recursive(node, index, _) makes, itself first: the node of
\* each call, the step it takes ("leaf": the base case; "left" / "right": the
\* child it recurses into; "panic": unwrap() on None) and the number of op
\* calls it makes itself (one, in update_value, after the recursion).
RECURSIVE set_recursive_visits(_, _)
set_recursive_visits(node, index) ==
  IF len(node.range) = 1
  THEN <<[range |-> node.range, step |-> "leaf", op_calls |-> 0]>>
  ELSE LET mid == node.range.start + (len(node.range) \div 2)
           child == IF index < mid THEN node.left ELSE node.right
       IN IF is_none(child)
          THEN <<[range |-> node.range, step |-> "panic", op_calls |-> 0]>>
          ELSE <<[range |-> node.range,
                  step |-> IF index < mid THEN "left" ELSE "right",
                  op_calls |-> 1]>>
               \o set_recursive_visits(unwrap(child), index)

\* set with the bounds check off by one (index > size).
SegmentTree_set_off_by_one(t, self, index, val) ==
  IF index > self.size THEN self
  ELSE IF is_some(self.root)
       THEN [self EXCEPT !.root =
               Some(set_recursive(t, unwrap(self.root), index, val))]
       ELSE self

SegmentTree_set(t, self, index, val) ==
  IF index >= self.size THEN self
  ELSE IF is_some(self.root)
       THEN [self EXCEPT !.root =
               Some(set_recursive(t, unwrap(self.root), index, val))]
       ELSE self

SegmentTree_set_panics(self, index) ==
  /\ index < self.size
  /\ is_some(self.root)
  /\ set_recursive_panics(unwrap(self.root), index)

RECURSIVE get_recursive(_, _, _)

\* get_recursive whose containment test forgets the lower end.
get_recursive_end_only(t, node, query_range) ==
  IF query_range.end <= node.range.start
     \/ query_range.start >= node.range.end
  THEN Monoid_id(t)
  ELSE IF query_range.end >= node.range.end
  THEN node.value
  ELSE LET left_sum == IF is_some(node.left)
                       THEN get_recursive(t, unwrap(node.left), query_range)
                       ELSE Monoid_id(t)
           right_sum == IF is_some(node.right)
                        THEN get_recursive(t, unwrap(node.right), query_range)
                        ELSE Monoid_id(t)
       IN Monoid_op(t, left_sum, right_sum)

get_recursive(t, node, query_range) ==
  IF query_range.end <= node.range.start
     \/ query_range.start >= node.range.end
  THEN Monoid_id(t)
  ELSE IF query_range.start <= node.range.start
          /\ query_range.end >= node.range.end
  THEN node.value
  ELSE LET left_sum == IF is_some(node.left)
                       THEN get_recursive(t, unwrap(node.left), query_range)
                       ELSE Monoid_id(t)
           right_sum == IF is_some(node.right)
                        THEN get_recursive(t, unwrap(node.right), query_range)
                        ELSE Monoid_id(t)
       IN Monoid_op(t, left_sum, right_sum)

SegmentTree_get(t, self, query_range) ==
  IF is_some(self.root)
  THEN get_recursive(t, unwrap(self.root), query_range)
  ELSE Monoid_id(t)

\* The case of get_recursive a node falls into: 1 no overlap, 2 total
\* containment, 3 partial overlap.
overlap_case(node, query_range) ==
  IF query_range.end <= node.range.start
     \/ query_range.start >= node.range.end
  THEN 1
  ELSE IF query_range.start <= node.range.start
          /\ query_range.end >= node.range.end
  THEN 2
  ELSE 3

RECURSIVE get_recursive_visits(_, _, _)

\* The calls of a get_recursive that recurses wherever there is an overlap
\* (no return at total containment).
get_recursive_visits_no_pruning(node, query_range, level) ==
  LET c == overlap_case(node, query_range)
      here == {[level |-> level, range |-> node.range,
                case |-> IF c = 1 THEN 1 ELSE 3]}
  IN IF c = 1
     THEN here
     ELSE here
          \cup (IF is_some(node.left)
                THEN get_recursive_visits(unwrap(node.left), query_range,
                                          level + 1)
                ELSE {})
          \cup (IF is_some(node.right)
                THEN get_recursive_visits(unwrap(node.right), query_range,
                                          level + 1)
                ELSE {})

\* The calls get_recursive(node, query_range) makes, itself included: the
\* node of each call, its level below the first node, and its case.
get_recursive_visits(node, query_range, level) ==
  LET c == overlap_case(node, query_range)
      here == {[level |-> level, range |-> node.range, case |-> c]}
  IN IF c = 1 \/ c = 2
     THEN here
     ELSE here
          \cup (IF is_some(node.left)
                THEN get_recursive_visits(unwrap(node.left), query_range,
                                          level + 1)
                ELSE {})
          \cup (IF is_some(node.right)
                THEN get_recursive_visits(unwrap(node.right), query_range,
                                          level + 1)
                ELSE {})

\* The calls of get_recursive below get(query_range).
SegmentTree_get_visits(self, query_range) ==
  IF is_some(self.root)
  THEN get_recursive_visits(unwrap(self.root), query_range, 0)
  ELSE {}

---------------------------------------------------------------------------
(* staticrmq.rs: Node<T: Clone>.  The closures e and op are passed as the  *)
(* name of the combiner they belong to and applied by Monoid_id/Monoid_op. *)

RECURSIVE rmq_Node_new(_, _)

\* Node::new with the midpoint rounded up.
rmq_Node_new_mid_up(range, e) ==
  IF is_empty(range) THEN None
  ELSE LET mid == range.start + ((len(range) + 1) \div 2)
           node == [value |-> Monoid_id(e), range |-> range,
                    left |-> None, right |-> None]
       IN IF len(range) > 1
          THEN Some([node EXCEPT
                       !.left = rmq_Node_new(mk_range(range.start, mid), e),
                       !.right = rmq_Node_new(mk_range(mid, range.end), e)])
          ELSE Some(node)

rmq_Node_new(range, e) ==
  IF is_empty(range) THEN None
  ELSE LET mid == range.start + (len(range) \div 2)
           node == [value |-> Monoid_id(e), range |-> range,
                    left |-> None, right |-> None]
       IN IF len(range) > 1
          THEN Some([node EXCEPT
                       !.left = rmq_Node_new(mk_range(range.start, mid), e),
                       !.right = rmq_Node_new(mk_range(mid, range.end), e)])
          ELSE Some(node)

\* update_value that takes the left child's value alone.
rmq_Node_update_value_left_only(node, e, op) ==
  LET left_val == IF is_some(node.left)
                  THEN unwrap(node.left).value ELSE Monoid_id(e)
  IN [node EXCEPT !.value = Monoid_op(op, left_val, Monoid_id(e))]

rmq_Node_update_value(node, e, op) ==
  LET left_val == IF is_some(node.left)
                  THEN unwrap(node.left).value ELSE Monoid_id(e)
      right_val == IF is_some(node.right)
                   THEN unwrap(node.right).value ELSE Monoid_id(e)
  IN [node EXCEPT !.value = Monoid_op(op, left_val, right_val)]

---------------------------------------------------------------------------
(* staticrmq.rs: SegmentTree<T, E, OP> *)

rmq_SegmentTree_new(size, e, op) ==
  [root |-> rmq_Node_new(mk_range(0, size), e), size |-> size,
   e |-> e, op |-> op]

RECURSIVE rmq_set_recursive(_, _, _, _, _)

\* set_recursive going left when index <= mid.
rmq_set_recursive_le_mid(node, index, val, e, op) ==
  IF len(node.range) = 1 THEN [node EXCEPT !.value = val]
  ELSE LET mid == node.range.start + (len(node.range) \div 2)
       IN IF index <= mid
          THEN IF is_none(node.left) THEN node
               ELSE rmq_Node_update_value([node EXCEPT !.left =
                      Some(rmq_set_recursive(unwrap(node.left),
                                             index, val, e, op))], e, op)
          ELSE IF is_none(node.right) THEN node
               ELSE rmq_Node_update_value([node EXCEPT !.right =
                      Some(rmq_set_recursive(unwrap(node.right),
                                             index, val, e, op))], e, op)

rmq_set_recursive(node, index, val, e, op) ==
  IF len(node.range) = 1 THEN [node EXCEPT !.value = val]
  ELSE LET mid == node.range.start + (len(node.range) \div 2)
       IN IF index < mid
          THEN IF is_none(node.left) THEN node
               ELSE rmq_Node_update_value([node EXCEPT !.left =
                      Some(rmq_set_recursive(unwrap(node.left),
                                             index, val, e, op))], e, op)
          ELSE IF is_none(node.right) THEN node
               ELSE rmq_Node_update_value([node EXCEPT !.right =
                      Some(rmq_set_recursive(unwrap(node.right),
                                             index, val, e, op))], e, op)

rmq_SegmentTree_set(self, index, val) ==
  IF index >= self.size THEN self
  ELSE IF is_some(self.root)
       THEN [self EXCEPT !.root =
               Some(rmq_set_recursive(unwrap(self.root), index, val,
                                      self.e, self.op))]
       ELSE self

\* The descent of staticrmq.rs set_recursive is that of
\* point_add_range_sum.rs, unwrap() calls included.
rmq_SegmentTree_set_panics(self, index) ==
  /\ index < self.size
  /\ is_some(self.root)
  /\ set_recursive_panics(unwrap(self.root), index)

RECURSIVE rmq_get_recursive(_, _, _, _)

\* get_recursive combining the right child's result before the left's.
rmq_get_recursive_right_first(node, query_range, e, op) ==
  IF query_range.end <= node.range.start
     \/ query_range.start >= node.range.end
  THEN Monoid_id(e)
  ELSE IF query_range.start <= node.range.start
          /\ query_range.end >= node.range.end
  THEN node.value
  ELSE LET left_sum == IF is_some(node.left)
                       THEN rmq_get_recursive(unwrap(node.left),
                                              query_range, e, op)
                       ELSE Monoid_id(e)
           right_sum == IF is_some(node.right)
                        THEN rmq_get_recursive(unwrap(node.right),
                                               query_range, e, op)
                        ELSE Monoid_id(e)
       IN Monoid_op(op, right_sum, left_sum)

rmq_get_recursive(node, query_range, e, op) ==
  IF query_range.end <= node.range.start
     \/ query_range.start >= node.range.end
  THEN Monoid_id(e)
  ELSE IF query_range.start <= node.range.start
          /\ query_range.end >= node.range.end
  THEN node.value
  ELSE LET left_sum == IF is_some(node.left)
                       THEN rmq_get_recursive(unwrap(node.left),
                                              query_range, e, op)
                       ELSE Monoid_id(e)
           right_sum == IF is_some(node.right)
                        THEN rmq_get_recursive(unwrap(node.right),
                                               query_range, e, op)
                        ELSE Monoid_id(e)
       IN Monoid_op(op, left_sum, right_sum)

\* get that puts a reversed range in order before descending.
rmq_SegmentTree_get_ordered(self, query_range) ==
  LET q == IF query_range.start > query_range.end
           THEN mk_range(query_range.end, query_range.start)
           ELSE query_range
  IN IF is_some(self.root)
     THEN rmq_get_recursive(unwrap(self.root), q, self.e, self.op)
     ELSE Monoid_id(self.e)

rmq_SegmentTree_get(self, query_range) ==
  IF is_some(self.root)
  THEN rmq_get_recursive(unwrap(self.root), query_range, self.e, self.op)
  ELSE Monoid_id(self.e)

---------------------------------------------------------------------------
(* The state machine: construction, then any sequence of set and get. *)

\* leaves of a fresh tree: every index holds the identity.
fresh_leaves(t, size) == [i \in 0..(size - 1) |-> Monoid_id(t)]

InitSized(sizes) ==
  /\ T \in Combiners
  /\ \E size \in sizes :
       /\ st = SegmentTree_new(T, size)
       /\ rmq = rmq_SegmentTree_new(size, T, T)
       /\ leaves = fresh_leaves(T, size)
  /\ last = [op |-> "new"]
  /\ panicked = FALSE
  /\ cyc = off
  /\ uf = off

Init == InitSized(0..MaxSize)

\* st.set(index, val) on both trees.
Set(index, val) ==
  /\ ~panicked
  /\ IF SegmentTree_set_panics(st, index)
        \/ rmq_SegmentTree_set_panics(rmq, index)
     THEN /\ panicked' = TRUE
          /\ UNCHANGED <<st, rmq, leaves>>
     ELSE /\ st' = SegmentTree_set(T, st, index, val)
          /\ rmq' = rmq_SegmentTree_set(rmq, index, val)
          /\ leaves' = IF index \in DOMAIN leaves
                       THEN [leaves EXCEPT ![index] = val]
                       ELSE leaves
          /\ panicked' = FALSE
  /\ last' = [op |-> "set", index |-> index, val |-> val]
  /\ UNCHANGED <<T, cyc, uf>>

\* st.get(start..end) on both trees; the results are kept in last.
Get(start, end) ==
  /\ ~panicked
  /\ last' = [op |-> "get", start |-> start, end |-> end,
              ret |-> SegmentTree_get(T, st, mk_range(start, end)),
              rmq_ret |-> rmq_SegmentTree_get(rmq, mk_range(start, end))]
  /\ UNCHANGED <<T, st, rmq, leaves, panicked, cyc, uf>>

\* Indices and range ends reach one past the domain's end and beyond.
Indices == 0..(st.size + 1)

Next ==
  \/ \E index \in Indices, val \in Values(T) : Set(index, val)
  \/ \E start \in Indices, end \in Indices : Get(start, end)

Spec == Init /\ [][Next]_vars

\* The trees of SpecBuild are larger; to keep the run finite a set call is
\* made right after construction only, and queries start at index 0.
InitBuild == InitSized(0..MaxBuildSize)

NextBuild ==
  \/ \E index \in Indices, val \in Values(T) :
       last.op = "new" /\ Set(index, val)
  \/ \E end \in Indices : Get(0, end)

SpecBuild == InitBuild /\ [][NextBuild]_vars

\* The trees of SpecQuery are queried as built, with every range.
InitQuery == InitSized(0..MaxQuerySize)

NextQuery == \E start \in Indices, end \in Indices : Get(start, end)

SpecQuery == InitQuery /\ [][NextQuery]_vars

---------------------------------------------------------------------------
(* cycle_detection.rs.  An edge is <<u, v, i>>, i its index in input order *)
(* (from 0); adj[u] is the sequence of <<neighbor, edge_index>>.  The three *)
(* &mut arguments of the search are the record [is_visited,                *)
(* recursion_stack, path_labels], with found the bool returned.            *)

\* Graph::new
Graph_new(size, edges) ==
  [adj |-> [u \in 0..(size - 1) |->
              LET out == SelectSeq(edges, LAMBDA ed : ed[1] = u)
              IN [k \in 1..Len(out) |-> <<out[k][2], out[k][3]>>]],
   size |-> size]

RECURSIVE find_cycle_recursive(_, _, _)
RECURSIVE find_cycle_recursive_loop(_, _, _, _)

\* The for loop without the backtracking of recursion_stack.
find_cycle_recursive_loop_no_backtrack(g, current_node, k, s) ==
  IF k > Len(g.adj[current_node]) THEN [s EXCEPT !.found = FALSE]
  ELSE LET neighbor == g.adj[current_node][k][1]
           edge_index == g.adj[current_node][k][2]
       IN IF s.recursion_stack[neighbor] > 0
          THEN [s EXCEPT !.path_labels = Append(@, edge_index),
                         !.found = TRUE]
          ELSE IF s.is_visited[neighbor]
          THEN find_cycle_recursive_loop(g, current_node, k + 1, s)
          ELSE LET down == [s EXCEPT
                              !.recursion_stack[neighbor] = @ + 1,
                              !.path_labels = Append(@, edge_index)]
                   r == find_cycle_recursive(g, neighbor, down)
               IN IF r.found THEN r
                  ELSE find_cycle_recursive_loop(g, current_node, k + 1,
                         [r EXCEPT
                            !.path_labels = SubSeq(@, 1, Len(@) - 1)])

\* The for loop of find_cycle_recursive from the k-th entry of
\* adj[current_node] on.  A key missing from recursion_stack reads as 0.
find_cycle_recursive_loop(g, current_node, k, s) ==
  IF k > Len(g.adj[current_node]) THEN [s EXCEPT !.found = FALSE]
  ELSE LET neighbor == g.adj[current_node][k][1]
           edge_index == g.adj[current_node][k][2]
       IN IF s.recursion_stack[neighbor] > 0
          THEN [s EXCEPT !.path_labels = Append(@, edge_index),
                         !.found = TRUE]
          ELSE IF s.is_visited[neighbor]
          THEN find_cycle_recursive_loop(g, current_node, k + 1, s)
          ELSE LET down == [s EXCEPT
                              !.recursion_stack[neighbor] = @ + 1,
                              !.path_labels = Append(@, edge_index)]
                   r == find_cycle_recursive(g, neighbor, down)
               IN IF r.found THEN r
                  ELSE find_cycle_recursive_loop(g, current_node, k + 1,
                         [r EXCEPT
                            !.recursion_stack[neighbor] = @ - 1,
                            !.path_labels = SubSeq(@, 1, Len(@) - 1)])

find_cycle_recursive(g, current_node, s) ==
  find_cycle_recursive_loop(g, current_node, 1,
                            [s EXCEPT !.is_visited[current_node] = TRUE])

\* The for loop of get_cycle from node i on.
RECURSIVE get_cycle_loop(_, _, _)
get_cycle_loop(g, i, s) ==
  IF i >= g.size THEN None
  ELSE IF ~s.is_visited[i]
  THEN LET r == find_cycle_recursive(g, i,
                  [s EXCEPT !.recursion_stack[i] = 1])
       IN IF r.found THEN Some(r.path_labels)
          ELSE get_cycle_loop(g, i + 1, [r EXCEPT !.recursion_stack[i] = 0])
  ELSE get_cycle_loop(g, i + 1, s)

\* Graph::get_cycle: None, or Some(path_labels)
get_cycle(g) ==
  get_cycle_loop(g, 0,
    [is_visited |-> [u \in 0..(g.size - 1) |-> FALSE],
     recursion_stack |-> [u \in 0..(g.size - 1) |-> 0],
     path_labels |-> <<>>,
     found |-> FALSE])

\* edge_map: edge index -> <<u, v>> (collect keeps the last entry of a key)
edge_map(edges) ==
  [i \in {edges[k][3] : k \in DOMAIN edges} |->
     LET k == CHOOSE k \in DOMAIN edges :
                /\ edges[k][3] = i
                /\ \A j \in DOMAIN edges : edges[j][3] = i => j <= k
     IN <<edges[k][1], edges[k][2]>>]

\* The destinations pushed by the loop over labels.
RECURSIVE node_path_rest(_, _)
node_path_rest(labels, em) ==
  IF labels = <<>> THEN <<>>
  ELSE (IF Head(labels) \in DOMAIN em
        THEN <<em[Head(labels)][2]>> ELSE <<>>)
       \o node_path_rest(Tail(labels), em)

\* The loop over node_path from position i (from 0) on: the first position
\* of the first node that repeats, 0 if none does.
RECURSIVE cycle_start_scan(_, _, _)
cycle_start_scan(node_path, i, seen_nodes) ==
  IF i >= Len(node_path) THEN 0
  ELSE LET node == node_path[i + 1]
       IN IF node \in DOMAIN seen_nodes
          THEN seen_nodes[node]
          ELSE cycle_start_scan(node_path, i + 1,
                                (node :> i) @@ seen_nodes)

\* remove_tail that keeps the whole path.
remove_tail_keep_all(labels, edges) ==
  IF labels = <<>> THEN <<>> ELSE SubSeq(labels, 1, Len(labels))

remove_tail(labels, edges) ==
  IF labels = <<>> THEN <<>>
  ELSE LET em == edge_map(edges)
           node_path ==
             (IF labels[1] \in DOMAIN em
              THEN <<em[labels[1]][1]>> ELSE <<>>)
             \o node_path_rest(labels, em)
           cycle_start_index == cycle_start_scan(node_path, 0, <<>>)
       IN SubSeq(labels, cycle_start_index + 1, Len(labels))

\* Every edge list of m edges with endpoints in [0, n), indexed in input
\* order.
EdgeLists(n, m) ==
  {[k \in 1..m |-> <<f[k][1], f[k][2], k - 1>>] :
     f \in [1..m -> (0..(n - 1)) \X (0..(n - 1))]}

\* The segment trees of a behaviour that runs another program.
trees_off ==
  /\ T = "sum"
  /\ st = SegmentTree_new(T, 0)
  /\ rmq = rmq_SegmentTree_new(0, T, T)
  /\ leaves = fresh_leaves(T, 0)
  /\ last = [op |-> "new"]
  /\ panicked = FALSE

trees_unchanged == UNCHANGED <<T, st, rmq, leaves, last, panicked>>

\* main, input processing: n, m and the m edges are read.
InitCycle ==
  /\ trees_off
  /\ uf = off
  /\ \E n \in 0..MaxNodes, m \in 0..MaxEdges :
       \E edges \in EdgeLists(n, m) :
          cyc = [pc |-> "read", n |-> n, edges |-> edges,
                 path |-> None, cycle_labels |-> <<>>, out |-> "none"]

\* main: let g = Graph::new(n, &edges); g.get_cycle()
CycleSearch ==
  /\ cyc.pc = "read"
  /\ cyc' = [cyc EXCEPT !.pc = "searched",
                        !.path = get_cycle(Graph_new(cyc.n, cyc.edges))]
  /\ trees_unchanged
  /\ UNCHANGED uf

\* main: the output.  out is "cycle" (the length and the labels are
\* printed), "-1", or "unreachable" (the unreachable!() branch panics).
CycleReport ==
  /\ cyc.pc = "searched"
  /\ IF is_some(cyc.path)
     THEN LET cycle_labels == remove_tail(unwrap(cyc.path), cyc.edges)
          IN cyc' = [cyc EXCEPT
                       !.pc = "done",
                       !.cycle_labels = cycle_labels,
                       !.out = IF Len(cycle_labels) > 1
                               THEN "cycle" ELSE "unreachable"]
     ELSE cyc' = [cyc EXCEPT !.pc = "done", !.out = "-1"]
  /\ trees_unchanged
  /\ UNCHANGED uf

NextCycle == CycleSearch \/ CycleReport

SpecCycle == InitCycle /\ [][NextCycle]_vars

---------------------------------------------------------------------------
(* unionfind.rs.  A UnionFind is the record [parent, height]; a method     *)
(* taking &mut self returns the UnionFind it leaves.                       *)

\* UnionFind::new
UnionFind_new(n) ==
  [parent |-> [i \in 0..(n - 1) |-> i],
   height |-> [i \in 0..(n - 1) |-> 1]]

\* UnionFind::get_parent: [self: the UnionFind after the call (paths
\* compressed), ret: the value returned]
RECURSIVE get_parent(_, _)
get_parent(self, u) ==
  IF self.parent[u] = u
  THEN [self |-> self, ret |-> u]
  ELSE LET r == get_parent(self, self.parent[u])
       IN [self |-> [r.self EXCEPT !.parent[u] = r.ret], ret |-> r.ret]

\* merge linking the elements given instead of their roots.
merge_links_elements(self, u, v) ==
  LET a == get_parent(self, u)
      b == get_parent(a.self, v)
      uf0 == b.self
  IN IF a.ret # b.ret
     THEN LET swapped == uf0.height[u] > uf0.height[v]
              x == IF swapped THEN v ELSE u
              y == IF swapped THEN u ELSE v
              linked == [uf0 EXCEPT !.parent[x] = y]
          IN IF linked.height[x] = linked.height[y]
             THEN [linked EXCEPT !.height[y] = @ + 1]
             ELSE linked
     ELSE uf0

\* UnionFind::merge
merge(self, u, v) ==
  LET a == get_parent(self, u)
      b == get_parent(a.self, v)
      uf0 == b.self
  IN IF a.ret # b.ret
     THEN LET swapped == uf0.height[a.ret] > uf0.height[b.ret]
              x == IF swapped THEN b.ret ELSE a.ret
              y == IF swapped THEN a.ret ELSE b.ret
              linked == [uf0 EXCEPT !.parent[x] = y]
          IN IF linked.height[x] = linked.height[y]
             THEN [linked EXCEPT !.height[y] = @ + 1]
             ELSE linked
     ELSE uf0

\* main: n is read and the UnionFind built.  comp is history: the least
\* element merged (directly or not) with each element so far.
InitUF ==
  /\ trees_off
  /\ cyc = off
  /\ \E n \in 0..MaxElems :
       uf = [pc |-> "run", n |-> n, self |-> UnionFind_new(n),
             comp |-> [i \in 0..(n - 1) |-> i],
             last |-> [op |-> "new"]]

\* main: Query::Set {u, v} => uf.merge(u, v)
UFSet(u, v) ==
  /\ uf.pc = "run"
  /\ uf' = [uf EXCEPT
              !.self = merge(uf.self, u, v),
              !.comp = LET least == IF uf.comp[u] < uf.comp[v]
                                    THEN uf.comp[u] ELSE uf.comp[v]
                       IN [i \in DOMAIN uf.comp |->
                             IF uf.comp[i] \in {uf.comp[u], uf.comp[v]}
                             THEN least ELSE uf.comp[i]],
              !.last = [op |-> "set"]]
  /\ trees_unchanged
  /\ UNCHANGED cyc

\* main: Query::Get {u, v} => uf.get_parent(u) == uf.get_parent(v), printed
\* as 1 or 0.
UFGet(u, v) ==
  /\ uf.pc = "run"
  /\ LET a == get_parent(uf.self, u)
         b == get_parent(a.self, v)
     IN uf' = [uf EXCEPT
                 !.self = b.self,
                 !.last = [op |-> "get", u |-> u, v |-> v,
                           out |-> IF a.ret = b.ret THEN 1 ELSE 0]]
  /\ trees_unchanged
  /\ UNCHANGED cyc

NextUF ==
  \/ \E u \in 0..(uf.n - 1), v \in 0..(uf.n - 1) : UFSet(u, v)
  \/ \E u \in 0..(uf.n - 1), v \in 0..(uf.n - 1) : UFGet(u, v)

SpecUF == InitUF /\ [][NextUF]_vars

---------------------------------------------------------------------------
(* Oracles and views used to state the properties *)

\* Left-to-right fold of op over f[lo], ..., f[hi-1].
RECURSIVE fold(_, _, _, _)
fold(t, f, lo, hi) ==
  IF lo >= hi THEN Monoid_id(t)
  ELSE Monoid_op(t, fold(t, f, lo, hi - 1), f[hi - 1])

\* The word f[lo] f[lo+1] ... f[hi-1], in increasing index order.
RECURSIVE in_order(_, _, _)
in_order(f, lo, hi) ==
  IF lo >= hi THEN <<>> ELSE f[lo] \o in_order(f, lo + 1, hi)

clip(end, size) == IF end < size THEN end ELSE size

\* Every node of a tree with its path from the root ("L"/"R" steps).
RECURSIVE flatten(_, _)
flatten(o, path) ==
  IF is_none(o) THEN {}
  ELSE LET n == unwrap(o)
       IN {[path |-> path, range |-> n.range, value |-> n.value,
            left |-> is_some(n.left), right |-> is_some(n.right)]}
          \cup flatten(n.left, Append(path, "L"))
          \cup flatten(n.right, Append(path, "R"))

nodes(o) == flatten(o, <<>>)

is_leaf(x) == ~x.left /\ ~x.right

Ranges == {mk_range(start, end) : start \in Indices, end \in Indices}

NonId(v) == v # Monoid_id(T)

---------------------------------------------------------------------------
\* C1: after any sequence of set calls, get(start..end) on either tree is the
\* left-to-right fold of op over the current leaf values at the indices i
\* with start <= i < end and i < size, for every start and end (ranges whose
\* end exceeds size included); the result a get call returned is that fold.
C1_GetIsFold ==
  /\ \A q \in Ranges :
       LET expect == fold(T, leaves, q.start, clip(q.end, st.size))
       IN /\ SegmentTree_get(T, st, q) = expect
          /\ rmq_SegmentTree_get(rmq, q) = expect
  /\ last.op = "get" =>
       LET expect == fold(T, leaves, last.start, clip(last.end, st.size))
       IN last.ret = expect /\ last.rmq_ret = expect

\* A get whose range reaches past the end of a tree with several set leaves.
C1_Witness ==
  /\ last.op = "get"
  /\ last.end > st.size
  /\ last.start >= 1
  /\ last.start + 2 <= st.size
  /\ \A i \in last.start..(st.size - 1) : NonId(leaves[i])
  /\ NonId(last.ret)

\* C2: right after set(i, v) with 0 <= i < size returns, get(i..i+1) is v.
C2_PointReadBack ==
  (last.op = "set" /\ last.index < st.size) =>
     LET q == mk_range(last.index, last.index + 1)
     IN /\ SegmentTree_get(T, st, q) = last.val
        /\ rmq_SegmentTree_get(rmq, q) = last.val

\* A set of a non-identity value after another leaf was set to another value.
C2_Witness ==
  /\ last.op = "set"
  /\ last.index < st.size
  /\ st.size >= 3
  /\ NonId(last.val)
  /\ \E j \in DOMAIN leaves :
       j # last.index /\ NonId(leaves[j]) /\ leaves[j] # last.val

\* Does every node below o hold op(left.value, right.value) if it is internal
\* and the last value set at its index if it is a leaf?
RECURSIVE in_sync(_, _, _)
in_sync(t, o, f) ==
  is_some(o) =>
    LET n == unwrap(o)
        left_val == IF is_some(n.left)
                    THEN unwrap(n.left).value ELSE Monoid_id(t)
        right_val == IF is_some(n.right)
                     THEN unwrap(n.right).value ELSE Monoid_id(t)
    IN /\ IF is_none(n.left) /\ is_none(n.right)
          THEN n.range.start \in DOMAIN f /\ n.value = f[n.range.start]
          ELSE n.value = Monoid_op(t, left_val, right_val)
       /\ in_sync(t, n.left, f)
       /\ in_sync(t, n.right, f)

\* C3: between operations every internal node holds op(left.value,
\* right.value), every leaf holds the last value set at its index (the
\* identity if none was), and so every node holds the fold of the leaf values
\* of its covered range.
C3_NodeAggregate ==
  /\ in_sync(T, st.root, leaves)
  /\ in_sync(T, rmq.root, leaves)
  /\ \A x \in nodes(st.root) \cup nodes(rmq.root) :
       x.value = fold(T, leaves, x.range.start, x.range.end)

\* A tree of three levels in which a set has just changed a leaf and leaves
\* in both halves hold different non-identity values.
C3_Witness ==
  /\ last.op = "set"
  /\ st.size >= 3
  /\ last.index < st.size
  /\ NonId(leaves[0])
  /\ NonId(leaves[st.size - 1])
  /\ leaves[0] # leaves[st.size - 1]

\* C4: set(index, v) with index >= size does not fail and leaves both trees
\* as they were, so every get returns what it returned before the call.
C4_OutOfRangeSetNoOp ==
  [][(last'.op = "set" /\ last'.index >= st.size) =>
        /\ ~panicked'
        /\ st' = st
        /\ rmq' = rmq
        /\ \A q \in Ranges :
             /\ SegmentTree_get(T, st', q) = SegmentTree_get(T, st, q)
             /\ rmq_SegmentTree_get(rmq', q) = rmq_SegmentTree_get(rmq, q)
    ]_vars

\* set(size, v) with a non-identity v on a tree holding non-identity values.
C4_Witness ==
  /\ last.op = "set"
  /\ last.index = st.size
  /\ st.size >= 2
  /\ NonId(last.val)
  /\ \E j \in DOMAIN leaves : NonId(leaves[j]) /\ leaves[j] # last.val

\* C5: get(start..end) with start >= end (an empty range k..k for any k, or
\* a reversed range) is the identity, whatever the trees hold.
C5_DegenerateRangeIsId ==
  /\ \A q \in Ranges :
       q.start >= q.end =>
         /\ SegmentTree_get(T, st, q) = Monoid_id(T)
         /\ rmq_SegmentTree_get(rmq, q) = Monoid_id(T)
  /\ (last.op = "get" /\ last.start >= last.end) =>
       /\ last.ret = Monoid_id(T)
       /\ last.rmq_ret = Monoid_id(T)
  /\ ~panicked

\* A reversed get whose two ends enclose leaves set to non-identity values.
C5_Witness ==
  /\ last.op = "get"
  /\ last.start > last.end
  /\ last.start <= st.size
  /\ \A i \in last.end..(last.start - 1) : NonId(leaves[i])

\* C6: a tree of size 0 has no root, every get on it is the identity and
\* every set leaves it as it was built.
C6_EmptyDomain ==
  st.size = 0 =>
    /\ st = [root |-> None, size |-> 0]
    /\ rmq = [root |-> None, size |-> 0, e |-> T, op |-> T]
    /\ \A q \in Ranges :
         /\ SegmentTree_get(T, st, q) = Monoid_id(T)
         /\ rmq_SegmentTree_get(rmq, q) = Monoid_id(T)
    /\ last.op = "get" =>
         last.ret = Monoid_id(T) /\ last.rmq_ret = Monoid_id(T)
    /\ ~panicked

\* A set of a non-identity value on the empty tree.
C6_Witness ==
  /\ st.size = 0
  /\ last.op = "set"
  /\ NonId(last.val)

\* Does every internal node below o hold the word of its left child followed
\* by the word of its right child?
RECURSIVE left_before_right(_)
left_before_right(o) ==
  is_some(o) =>
    LET n == unwrap(o)
    IN /\ (is_some(n.left) /\ is_some(n.right)) =>
            n.value = unwrap(n.left).value \o unwrap(n.right).value
       /\ left_before_right(n.left)
       /\ left_before_right(n.right)

\* C7: with word concatenation (associative, not commutative) get(l..r) is
\* the word of the leaves l, l+1, ..., r-1 in increasing index order, and
\* every internal node holds its left child's word before its right child's.
C7_OrderPreserved ==
  T = "concat" =>
    /\ \A q \in Ranges :
         LET word == in_order(leaves, q.start, clip(q.end, st.size))
         IN /\ SegmentTree_get(T, st, q) = word
            /\ rmq_SegmentTree_get(rmq, q) = word
    /\ last.op = "get" =>
         LET word == in_order(leaves, last.start, clip(last.end, st.size))
         IN last.ret = word /\ last.rmq_ret = word
    /\ left_before_right(st.root)
    /\ left_before_right(rmq.root)

\* A get of a proper part of the domain (partial overlap at the root and
\* below it) that returned a word which read backwards is another word.
C7_Witness ==
  /\ T = "concat"
  /\ last.op = "get"
  /\ st.size >= 3
  /\ last.start = 0
  /\ last.end = st.size - 1
  /\ Len(last.ret) >= 2
  /\ last.ret[1] # last.ret[Len(last.ret)]

\* Does the subtree o hold the leaf covering index?  (Then its root is that
\* leaf or one of its ancestors.)
RECURSIVE holds_leaf(_, _)
holds_leaf(o, index) ==
  /\ is_some(o)
  /\ LET n == unwrap(o)
     IN IF is_none(n.left) /\ is_none(n.right)
        THEN n.range = mk_range(index, index + 1)
        ELSE holds_leaf(n.left, index) \/ holds_leaf(n.right, index)

\* Are the subtrees old and new the same nodes with the same ranges and
\* children, and with the same values except, if in_range_set, at the leaf
\* covering index and at its ancestors?
RECURSIVE same_but_path(_, _, _, _)
same_but_path(old, new, in_range_set, index) ==
  \/ old = new
  \/ /\ is_some(old)
     /\ is_some(new)
     /\ LET o == unwrap(old)
            n == unwrap(new)
        IN /\ n.range = o.range
           /\ n.value # o.value => (in_range_set /\ holds_leaf(old, index))
           /\ same_but_path(o.left, n.left, in_range_set, index)
           /\ same_but_path(o.right, n.right, in_range_set, index)

\* What a call may change of a tree: no node, range or child, and the value
\* of a node only if the call is an in-range set and the node lies on the
\* path from the root to the leaf covering its index.
frame(old, new, call) ==
  /\ new.size = old.size
  /\ IF call.op = "set"
     THEN same_but_path(old.root, new.root,
                        call.index < old.size, call.index)
     ELSE new.root = old.root

\* C8: an in-range set changes only the values of the leaf covering index and
\* of its ancestors; ranges, children and size never change, and neither set
\* nor get creates or destroys a node.
C8_SetFrame ==
  [][/\ frame(st, st', last')
     /\ frame(rmq, rmq', last')
     /\ rmq'.e = rmq.e
     /\ rmq'.op = rmq.op
    ]_vars

\* An in-range set of a new non-identity value at index 1 of a tree in which
\* the leaves on both sides hold other non-identity values.
C8_Witness ==
  /\ last.op = "set"
  /\ st.size >= 3
  /\ last.index = 1
  /\ NonId(last.val)
  /\ NonId(leaves[0]) /\ leaves[0] # last.val
  /\ NonId(leaves[2]) /\ leaves[2] # last.val

\* The shape Node::new gives a tree of the given size.
well_shaped(tree) ==
  LET N == nodes(tree.root)
  IN /\ \A x \in N : x.range.start < x.range.end
     /\ tree.size = 0 => is_none(tree.root)
     /\ tree.size > 0 =>
          /\ is_some(tree.root)
          /\ unwrap(tree.root).range = mk_range(0, tree.size)
     /\ \A x \in N :
          /\ x.left = (x.range.end - x.range.start > 1)
          /\ x.right = (x.range.end - x.range.start > 1)
     /\ \A x \in N :
          ~is_leaf(x) =>
            LET mid == x.range.start
                         + ((x.range.end - x.range.start) \div 2)
            IN /\ \E y \in N : /\ y.path = Append(x.path, "L")
                               /\ y.range = mk_range(x.range.start, mid)
               /\ \E y \in N : /\ y.path = Append(x.path, "R")
                               /\ y.range = mk_range(mid, x.range.end)
     /\ {x.range : x \in {y \in N : is_leaf(y)}}
          = {mk_range(i, i + 1) : i \in 0..(tree.size - 1)}
     /\ Cardinality({y \in N : is_leaf(y)}) = tree.size

\* C9: the tree new(size) builds has only non-empty ranges, a root covering
\* [0, size), children exactly at the nodes of more than one index, split at
\* mid = s + (e - s)/2, and one leaf [i, i+1) for each i in [0, size); right
\* after construction every node holds the identity.
C9_ConstructionShape ==
  /\ well_shaped(st)
  /\ well_shaped(rmq)
  /\ last.op = "new" =>
       \A x \in nodes(st.root) \cup nodes(rmq.root) : x.value = Monoid_id(T)

\* A freshly built tree of an odd size of several levels.
C9_Witness ==
  /\ last.op = "new"
  /\ st.size >= 7
  /\ st.size % 2 = 1
  /\ Cardinality(nodes(st.root)) = 2 * st.size - 1

\* Number of edges on the longest root-to-leaf path, and on the shortest.
depth(o) ==
  LET D == {Len(x.path) : x \in {y \in nodes(o) : is_leaf(y)}}
  IN CHOOSE d \in D : \A c \in D : c <= d

min_depth(o) ==
  LET D == {Len(x.path) : x \in {y \in nodes(o) : is_leaf(y)}}
  IN CHOOSE d \in D : \A c \in D : d <= c

\* ceil(log2(n)) for n >= 1
ceil_log2(n) == CHOOSE k \in 0..n : 2^k >= n /\ (k = 0 \/ 2^(k - 1) < n)

\* C10: for size >= 1 the tree new(size) builds has depth ceil(log2(size)),
\* and the depths of two leaves differ by at most one.
C10_Balanced ==
  st.size >= 1 =>
    /\ depth(st.root) = ceil_log2(st.size)
    /\ depth(rmq.root) = ceil_log2(st.size)
    /\ depth(st.root) - min_depth(st.root) <= 1
    /\ depth(rmq.root) - min_depth(rmq.root) <= 1

\* A freshly built tree, not a power of two in size, with leaves on two
\* levels.
C10_Witness ==
  /\ last.op = "new"
  /\ st.size >= 9
  /\ depth(st.root) = 4
  /\ min_depth(st.root) = 3

\* C11: in one get call at most 2 nodes of any level fall into the partial
\* overlap case, so get_recursive is called on at most 4 nodes of any level.
C11_PruningBound ==
  last.op = "get" =>
    LET V == SegmentTree_get_visits(st, mk_range(last.start, last.end))
    IN \A l \in {v.level : v \in V} :
         /\ Cardinality({v \in V : v.level = l /\ v.case = 3}) <= 2
         /\ Cardinality({v \in V : v.level = l}) <= 4

\* A get with two partially overlapping nodes on one level and four calls on
\* the level below it.
C11_Witness ==
  /\ last.op = "get"
  /\ LET V == SegmentTree_get_visits(st, mk_range(last.start, last.end))
     IN \E l \in {v.level : v \in V} :
          /\ Cardinality({v \in V : v.level = l /\ v.case = 3}) = 2
          /\ Cardinality({v \in V : v.level = l + 1}) = 4
          /\ \E v \in V : v.level = l + 1 /\ v.case = 3

\* The sum of the op calls of the visits.
RECURSIVE op_calls_of(_)
op_calls_of(P) ==
  IF P = <<>> THEN 0 ELSE Head(P).op_calls + op_calls_of(Tail(P))

\* Is the descent of set(index, _) into tree safe?
safe_descent(tree, index) ==
  /\ is_some(tree.root)
  /\ LET P == set_recursive_visits(unwrap(tree.root), index)
         n == Len(P)
         mid(r) == r.start + ((r.end - r.start) \div 2)
     IN \* no unwrap() hits None, and index stays in the node's range
        /\ \A k \in 1..n :
             /\ P[k].step # "panic"
             /\ P[k].range.start <= index
             /\ index < P[k].range.end
        \* left when index < mid, else right, into a child that is there
        /\ \A k \in 1..(n - 1) :
             /\ P[k].step = IF index < mid(P[k].range)
                            THEN "left" ELSE "right"
             /\ P[k + 1].range =
                  IF index < mid(P[k].range)
                  THEN mk_range(P[k].range.start, mid(P[k].range))
                  ELSE mk_range(mid(P[k].range), P[k].range.end)
             /\ \E x \in nodes(tree.root) :
                  x.range = P[k + 1].range /\ Len(x.path) = k
        \* it stops at the leaf of index
        /\ P[n].step = "leaf"
        /\ P[n].range = mk_range(index, index + 1)
        /\ \E x \in nodes(tree.root) :
             is_leaf(x) /\ x.range = P[n].range /\ Len(x.path) = n - 1
        \* one op call per internal node on the way back up
        /\ op_calls_of(P) = n - 1

\* C12: for index < size the descent of set picks left when index < mid and
\* right otherwise, finds the chosen child present, keeps index inside the
\* current node's range, stops at the leaf [index, index+1) after one node
\* per level, and calls op once per internal node on the way back up.
C12_DescentSafety ==
  /\ ~panicked
  /\ (last.op = "set" /\ last.index < st.size) =>
       /\ safe_descent(st, last.index)
       /\ safe_descent(rmq, last.index)

\* A set whose descent goes through four levels, left and right.
C12_Witness ==
  /\ last.op = "set"
  /\ last.index < st.size
  /\ LET P == set_recursive_visits(unwrap(st.root), last.index)
     IN /\ Len(P) >= 5
        /\ \E k \in 1..Len(P) : P[k].step = "left"
        /\ \E k \in 1..Len(P) : P[k].step = "right"

\* The pairs <<a, b>> with a walk of 1..k+1 edges of R from a to b.
RECURSIVE walks(_, _)
walks(R, k) ==
  IF k = 0 THEN R
  ELSE LET W == walks(R, k - 1)
       IN W \cup {<<x[1][1], x[2][2]>> :
                    x \in {y \in W \X R : y[1][2] = y[2][1]}}

\* Is the directed graph of an edge list free of cycles (self-loops are
\* cycles)?
acyclic(n, edges) ==
  LET R == {<<edges[k][1], edges[k][2]>> : k \in DOMAIN edges}
  IN \A v \in 0..(n - 1) : <<v, v>> \notin walks(R, n)

\* Tail and head of the edge of a label.
tail_of(edges, label) == edges[label + 1][1]
head_of(edges, label) == edges[label + 1][2]

\* Do consecutive edges of the labels chain head to tail?
chained(edges, L) ==
  /\ \A k \in DOMAIN L : L[k] \in 0..(Len(edges) - 1)
  /\ \A k \in 1..(Len(L) - 1) : head_of(edges, L[k]) = tail_of(edges, L[k + 1])

\* C13: get_cycle returns None if and only if the graph is acyclic, and
\* Some(labels) holds the edge indices of a directed path whose last edge
\* ends at a node already on the path.
C13_GetCycleResult ==
  cyc.pc \in {"searched", "done"} =>
    /\ is_none(cyc.path) <=> acyclic(cyc.n, cyc.edges)
    /\ is_some(cyc.path) =>
         LET L == unwrap(cyc.path)
         IN /\ L # <<>>
            /\ chained(cyc.edges, L)
            /\ head_of(cyc.edges, L[Len(L)])
                 \in {tail_of(cyc.edges, L[k]) : k \in DOMAIN L}

\* A search that backtracked out of the first edge of node 0 and then found
\* a cycle through its second edge.
C13_Witness ==
  /\ cyc.pc = "searched"
  /\ is_some(cyc.path)
  /\ Len(cyc.edges) = 3
  /\ cyc.edges[1][1] = 0
  /\ unwrap(cyc.path) = <<1, 2>>

\* C14: remove_tail returns a non-empty suffix of the labels get_cycle
\* returned that is the cycle: consecutive edges chain, the last edge ends
\* where the first starts, and no node is visited twice.
C14_TailTrimmed ==
  (cyc.pc = "done" /\ is_some(cyc.path)) =>
    LET L == unwrap(cyc.path)
        Cy == cyc.cycle_labels
    IN /\ Cy # <<>>
       /\ Len(Cy) <= Len(L)
       /\ Cy = SubSeq(L, Len(L) - Len(Cy) + 1, Len(L))
       /\ chained(cyc.edges, Cy)
       /\ head_of(cyc.edges, Cy[Len(Cy)]) = tail_of(cyc.edges, Cy[1])
       /\ \A j, k \in DOMAIN Cy :
            tail_of(cyc.edges, Cy[j]) = tail_of(cyc.edges, Cy[k]) => j = k

\* A path of three edges whose first edge is its tail.
C14_Witness ==
  /\ cyc.pc = "done"
  /\ is_some(cyc.path)
  /\ Len(unwrap(cyc.path)) = 3
  /\ Len(cyc.cycle_labels) = 2

\* C15: whenever get_cycle returns Some, the labels remove_tail returns are
\* more than one, and main does not reach unreachable!().
C15_CycleLongerThanOne ==
  (cyc.pc = "done" /\ is_some(cyc.path)) =>
    /\ Len(cyc.cycle_labels) > 1
    /\ cyc.out # "unreachable"

\* C16: built with the same size, identity and op and driven by the same
\* calls, the trait-based tree and the closure-based tree hold the same nodes
\* with the same ranges and values after every call, and every get returns
\* the same result on both.
C16_VariantsEquivalent ==
  cyc = off =>
    /\ rmq.size = st.size
    /\ rmq.root = st.root
    /\ \A q \in Ranges :
         rmq_SegmentTree_get(rmq, q) = SegmentTree_get(T, st, q)
    /\ last.op = "get" => last.rmq_ret = last.ret

\* A get of the first two leaves of a tree whose leaves all hold
\* non-identity values, the first two different ones.
C16_Witness ==
  /\ last.op = "get"
  /\ st.size >= 3
  /\ last.start = 0
  /\ last.end = 2
  /\ \A i \in DOMAIN leaves : NonId(leaves[i])
  /\ leaves[0] # leaves[1]
  /\ NonId(last.ret)
  /\ NonId(last.rmq_ret)

\* The element k parent steps above u.
RECURSIVE ancestor(_, _, _)
ancestor(parent, u, k) ==
  IF k = 0 THEN u ELSE ancestor(parent, parent[u], k - 1)

\* Is parent a forest whose only cycles are the self-loops of the roots?
is_forest(parent) ==
  /\ \A u \in DOMAIN parent : parent[u] \in DOMAIN parent
  /\ \A u \in DOMAIN parent :
       LET top == ancestor(parent, u, Cardinality(DOMAIN parent))
       IN parent[top] = top

\* C17: the parent array stays a forest whose only cycles are root
\* self-loops, get_parent(u) == get_parent(v) holds exactly when u and v are
\* connected by the merges performed so far, and the path compression of
\* get_parent changes the root of no element.
C17_UnionFindConnectivity ==
  uf.pc = "run" =>
    /\ is_forest(uf.self.parent)
    /\ \A u \in DOMAIN uf.comp :
         LET a == get_parent(uf.self, u)
         IN /\ is_forest(a.self.parent)
            /\ \A v \in DOMAIN uf.comp :
                 LET b == get_parent(a.self, v)
                 IN /\ b.ret = get_parent(uf.self, v).ret
                    /\ (a.ret = b.ret) <=> (uf.comp[u] = uf.comp[v])
    /\ uf.last.op = "get" =>
         (uf.last.out = 1) <=> (uf.comp[uf.last.u] = uf.comp[uf.last.v])

\* A get that answered 1 for two different elements of a tree of height 3,
\* while another element is in another set.
C17_Witness ==
  /\ uf.pc = "run"
  /\ uf.last.op = "get"
  /\ uf.last.out = 1
  /\ uf.last.u # uf.last.v
  /\ \E i \in DOMAIN uf.comp : uf.self.height[i] = 3
  /\ \E i \in DOMAIN uf.comp : uf.comp[i] # uf.comp[uf.last.u]

====
